---------------------------- MODULE Spec2Model ----------------------------
(***************************************************************************)
(* Model of site_gen/gen_noc_shop_list.py: the catalog of descriptors, the *)
(* fetcher (clone_repositories), the scanner (scan_cloned_repositories)    *)
(* and the page generation (generate_shop_list, main).                     *)
(*                                                                         *)
(* Strings the code inspects are sequences of tokens: "git+https://h/r" is *)
(* <<"git+", "https://h/r">>, so that startswith('git+') and [4:] are      *)
(* computed on the value.  YAML values carry their Python type.            *)
(***************************************************************************)
EXTENDS Integers, Sequences, FiniteSets, TLC

VARIABLES
    mode,             \* which entry point runs: "fetch", "scan" or "gen"
    pc,               \* position of the running call
    source_dict,      \* the catalog: name -> descriptor (read_source_files)
    clone_dir_exists, \* whether the working directory exists
    fs,               \* the working directory: name -> directory
    run,              \* number of the current run of the fetch step
    i,                \* index of the current loop iteration
    results,          \* clone_repositories' results
    invoked,          \* the clone commands handed to subprocess.run, this run
    produced,         \* what this run's clone command wrote, per name
    scan_results,     \* scan_cloned_repositories' scan_results
    out,              \* the output directory: detail documents and the index
    generated_files,  \* generate_shop_list's generated_files
    ret,              \* what generate_shop_list returned, "none" before
    exit_code,        \* what main returned, -1 before
    before,           \* what the current fetch run found in the working
                      \* directory; of a directory it has removed since, the
                      \* extras only
    failed_at         \* index of the record whose rendering raised, 0 if none

vars == <<mode, pc, source_dict, clone_dir_exists, fs, run, i, results,
          invoked, produced, scan_results, out, generated_files, ret,
          exit_code, before, failed_at>>

---------------------------------------------------------------------------
(* Bounds of the model *)

\* runs of the fetch step on the same catalog
MaxRuns == 2
\* revisions the remote repository can be at when it is cloned
MaxRev == 2
\* how many lines past the excerpt limit a readme of the model can have
MaxOver == 1

\* f.readlines()[:100]
ReadmeLimit == 100

\* Catalog entry names, in the iteration order of the catalog (dict order)
\* and of os.listdir.
NameOrder == <<"a", "b">>
Names == {NameOrder[k] : k \in 1..Len(NameOrder)}

---------------------------------------------------------------------------
(* YAML values *)

Str(toks) == [type |-> "str", s |-> toks]
IntVal == [type |-> "int", s |-> <<"123">>]
NoneVal == [type |-> "none", s |-> <<>>]
\* the key is not in the mapping
Missing == [type |-> "missing", s |-> <<>>]

Keys == {"source", "gitbranch", "title", "rfnoc_path"}
EmptyMap == [k \in Keys |-> Missing]
MapOf(src, br, title, rp) ==
    [k \in Keys |-> CASE k = "source" -> src
                      [] k = "gitbranch" -> br
                      [] k = "title" -> title
                      [] k = "rfnoc_path" -> rp]
\* 'k' in mapping
HasKey(m, k) == m[k] # Missing

(* Descriptors: what yaml.safe_load returned for a catalog document.       *)
NoEntry == [kind |-> "noentry", fields |-> EmptyMap, text |-> <<>>]
NullDesc == [kind |-> "null", fields |-> EmptyMap, text |-> <<>>]
IntDesc == [kind |-> "int", fields |-> EmptyMap, text |-> <<>>]
StrDesc(toks) == [kind |-> "str", fields |-> EmptyMap, text |-> toks]
MapDesc(m) == [kind |-> "map", fields |-> m, text |-> <<>>]

\* source_dict.items(): the names that have a catalog entry, in order
Items(sd) == SelectSeq(NameOrder, LAMBDA n : sd[n].kind # "noentry")

---------------------------------------------------------------------------
(* Directories of the working directory *)

\* A document of a child directory: its name is (hidden ? "." : "") stem ext
File(hidden, stem, ext, content) ==
    [hidden |-> hidden, stem |-> stem, ext |-> ext, content |-> content]
NoChild == [exists |-> FALSE, files |-> <<>>]
Child(files) == [exists |-> TRUE, files |-> files]
NoMeta == [exists |-> FALSE, blocks |-> NoChild, modules |-> NoChild,
           transport_adapters |-> NoChild]
Meta(b, m, t) == [exists |-> TRUE, blocks |-> b, modules |-> m,
                  transport_adapters |-> t]
NoManifest == [kind |-> "absent", fields |-> EmptyMap]
NoReadme == [exists |-> FALSE, lines |-> <<>>]
Readme(lines) == [exists |-> TRUE, lines |-> lines]
Absent == [exists |-> FALSE, manifest |-> NoManifest, readme |-> NoReadme,
           rfnoc |-> NoMeta, alt |-> NoMeta, extras |-> {}]
Dir(manifest, readme, rfnoc, alt, extras) ==
    [exists |-> TRUE, manifest |-> manifest, readme |-> readme,
     rfnoc |-> rfnoc, alt |-> alt, extras |-> extras]


\* The repository behind a source URL, at revision v: one block document
\* and a file that tells the revision
Remote(v) ==
    Dir(NoManifest, NoReadme,
        Meta(Child(<<File(FALSE, "b1", ".yml", "doc")>>), NoChild, NoChild),
        NoMeta,
        {[name |-> "tree", rev |-> v]})

\* A local-only change made in a cloned directory between two runs
LocalFile == [name |-> "local", rev |-> 0]

\* repo_info as line 170 initialises it.  manifest and readme are None until
\* set; error is "" as long as the record has no 'error' key.
NoneManifest == [kind |-> "none", fields |-> EmptyMap]
NoneReadme == [kind |-> "none", lines |-> <<>>]
RepoInfo(name) ==
    [path |-> name, manifest |-> NoneManifest, readme |-> NoneReadme,
     rfnoc_blocks |-> <<>>, rfnoc_modules |-> <<>>,
     rfnoc_transport_adapters |-> <<>>, has_rfnoc |-> FALSE, error |-> ""]
NoRecord == [present |-> FALSE, info |-> RepoInfo("")]
Record(info) == [present |-> TRUE, info |-> info]
NoRecords == [n \in Names |-> NoRecord]

\* The output directory: a document is "absent", "stale" (left by an earlier
\* build), "empty" (opened for writing, nothing written) or "written".
NoOutput == [docs |-> [n \in Names |-> "absent"], index |-> "absent"]

---------------------------------------------------------------------------
(* clone_repositories *)

NoResult == [status |-> "none", message |-> "", path |-> "",
             branch |-> <<>>, url |-> <<>>]
ErrorResult(msg, url) == [status |-> "error", message |-> msg, path |-> "",
                          branch |-> <<>>, url |-> url]

\* Lines 76-87: what the checks before the try block do with a descriptor.
\*   "invalid"  config is None
\*   "nosource" 'source' not in config
\*   "raise"    an exception outside the try block: 'source' not in <int>
\*              (TypeError), <str>['source'] (TypeError), or
\*              git_url.startswith on a source that is no string
\*              (AttributeError)
\*   "ok"       git_url is a string
SourceCheck(config) ==
    CASE config.kind = "null" -> "invalid"
      [] config.kind = "int" -> "raise"
      [] config.kind = "str" ->
            IF \E k \in 1..Len(config.text) : config.text[k] = "source"
            THEN "raise" ELSE "nosource"
      [] config.kind = "map" ->
            IF ~HasKey(config.fields, "source") THEN "nosource"
            ELSE IF config.fields["source"].type # "str" THEN "raise"
            ELSE "ok"

\* Lines 85-87: the URL with a leading 'git+' removed
GitUrl(config) ==
    LET u == config.fields["source"].s
    IN IF Len(u) > 0 /\ u[1] = "git+" THEN Tail(u) ELSE u

\* Line 90: config.get('gitbranch')
Branch(config) ==
    IF HasKey(config.fields, "gitbranch") THEN config.fields["gitbranch"]
    ELSE NoneVal

\* Line 108: if branch
Truthy(v) == \/ v.type = "int"
             \/ v.type = "str" /\ v.s # <<>>

\* Lines 102-111: the command; branch is <<>> when no --branch is given
Cmd(name, config) ==
    [dir |-> name, url |-> GitUrl(config),
     branch |-> IF Truthy(Branch(config)) THEN Branch(config).s ELSE <<>>]

\* Lines 120-125
SuccessResult(name, config) ==
    [status |-> "success", message |-> "", path |-> name,
     branch |-> IF Truthy(Branch(config)) THEN Branch(config).s
                ELSE <<"default">>,
     url |-> GitUrl(config)]

\* Lines 97-99: the target path after the removal step (when it succeeds)
AfterRmtreeSkipped(d) == d
AfterRmtree(d) == Absent

\* The sequences a sequence of files becomes when some of them are removed
RECURSIVE SubSeqs(_)
SubSeqs(s) ==
    IF s = <<>> THEN {<<>>}
    ELSE LET rest == SubSeqs(Tail(s))
         IN rest \cup {<<Head(s)>> \o t : t \in rest}

\* A directory with none, some or all of its contents gone
ChildParts(c) ==
    IF ~c.exists THEN {c}
    ELSE {NoChild} \cup {Child(f) : f \in SubSeqs(c.files)}
MetaParts(m) ==
    IF ~m.exists THEN {m}
    ELSE {NoMeta} \cup
         {Meta(b, mo, t) : b \in ChildParts(m.blocks),
                           mo \in ChildParts(m.modules),
                           t \in ChildParts(m.transport_adapters)}
Parts(d) ==
    {Dir(ma, r, rf, al, ex) :
        ma \in {d.manifest, NoManifest}, r \in {d.readme, NoReadme},
        rf \in MetaParts(d.rfnoc), al \in MetaParts(d.alt),
        ex \in SUBSET d.extras}

\* shutil.rmtree is inside directory x: x is still there, without some of
\* what orig held
Opened(x, orig) == x.exists /\ x # orig
AtMostOneOpened(m, orig) ==
    Cardinality({c \in {"blocks", "modules", "transport_adapters"} :
                   Opened(m[c], orig[c])}) <= 1

\* Line 99: what a shutil.rmtree that raises leaves behind.  It removes
\* entries in directory-listing order, depth first, and stops at the first
\* one it cannot remove: the directory itself stays, every entry is gone or
\* untouched, and at most one subdirectory of a directory is part removed.
Leftovers(d) ==
    {p \in Parts(d) :
        /\ ~(Opened(p.rfnoc, d.rfnoc) /\ Opened(p.alt, d.alt))
        /\ AtMostOneOpened(p.rfnoc, d.rfnoc)
        /\ AtMostOneOpened(p.alt, d.alt)}

\* Lines 113-118: what git clone leaves at the target when it does not end
\* well.  It refuses a target that exists and is not empty and leaves it as
\* it is.  Else it leaves nothing (the remote or the branch is missing, git
\* cannot be started), or the new directory with none, a part or all of the
\* work tree ('Clone succeeded, but checkout failed').
RemoteParts == UNION {Parts(Remote(v)) : v \in 1..MaxRev}
FailedClone(target) ==
    IF target.exists THEN {target}
    ELSE {Absent} \cup RemoteParts

\* Lines 113-118: what is at the target when subprocess.run raises something
\* else than CalledProcessError: a branch that is no string (TypeError)
\* stops it before git is started; git that cannot be started (OSError)
\* writes nothing; output that cannot be decoded (UnicodeDecodeError) raises
\* after git has run, whatever its exit code
UnexpectedClone(target, config) ==
    IF Branch(config).type = "int" THEN {target}
    ELSE FailedClone(target)

\* What is remembered of a directory the run found and has removed
Forgotten(d) ==
    IF d.exists THEN Dir(NoManifest, NoReadme, NoMeta, NoMeta, d.extras)
    ELSE d

\* What the clone command wrote, given what it found and what it left
Written(target, left) == IF target.exists THEN Absent ELSE left

\* The current entry of the loop over source_dict.items()
CurName == Items(source_dict)[i]
CurConfig == source_dict[CurName]
InFetchLoop == pc = "fetch" /\ i <= Len(Items(source_dict))

LaterUnchanged ==
    UNCHANGED <<scan_results, out, generated_files, ret, exit_code, failed_at>>

\* Lines 67-73: the call begins
FetchBegin ==
    /\ pc = "start"
    /\ mode \in {"fetch", "gen"}
    /\ clone_dir_exists' = TRUE
    /\ results' = [n \in Names |-> NoResult]
    /\ invoked' = {}
    /\ produced' = [n \in Names |-> Absent]
    /\ i' = 1
    /\ before' = fs
    /\ pc' = "fetch"
    /\ UNCHANGED <<mode, source_dict, fs, run>>
    /\ LaterUnchanged

\* Lines 76-78
FetchInvalidYaml ==
    /\ InFetchLoop
    /\ SourceCheck(CurConfig) = "invalid"
    /\ results' = [results EXCEPT
                     ![CurName] = ErrorResult("Invalid YAML config", <<>>)]
    /\ i' = i + 1
    /\ UNCHANGED <<mode, pc, source_dict, clone_dir_exists, fs, run,
                   invoked, produced, before>>
    /\ LaterUnchanged

\* Lines 80-82
FetchNoSource ==
    /\ InFetchLoop
    /\ SourceCheck(CurConfig) = "nosource"
    /\ results' = [results EXCEPT
                     ![CurName] = ErrorResult("No source URL found", <<>>)]
    /\ i' = i + 1
    /\ UNCHANGED <<mode, pc, source_dict, clone_dir_exists, fs, run,
                   invoked, produced, before>>
    /\ LaterUnchanged

\* Lines 80-87: an exception raised outside the try block leaves the loop and
\* the call; nothing is returned.
FetchRaise ==
    /\ InFetchLoop
    /\ SourceCheck(CurConfig) = "raise"
    /\ pc' = "raised"
    /\ UNCHANGED <<mode, source_dict, clone_dir_exists, fs, run, i, results,
                   invoked, produced, before>>
    /\ LaterUnchanged

\* Lines 95-99, 135-141: shutil.rmtree raises
FetchRmtreeFails ==
    /\ InFetchLoop
    /\ SourceCheck(CurConfig) = "ok"
    /\ fs[CurName].exists
    /\ \E left \in Leftovers(fs[CurName]) :
          fs' = [fs EXCEPT ![CurName] = left]
    /\ results' = [results EXCEPT
                     ![CurName] = ErrorResult("Unexpected error",
                                              GitUrl(CurConfig))]
    /\ i' = i + 1
    /\ UNCHANGED <<mode, pc, source_dict, clone_dir_exists, run, invoked,
                   produced, before>>
    /\ LaterUnchanged

\* Lines 95-126: the old directory is removed and the clone command exits 0
FetchCloneOk ==
    /\ InFetchLoop
    /\ SourceCheck(CurConfig) = "ok"
    /\ Branch(CurConfig).type # "int"
    /\ ~AfterRmtree(fs[CurName]).exists
    /\ \E v \in 1..MaxRev :
          /\ fs' = [fs EXCEPT ![CurName] = Remote(v)]
          /\ produced' = [produced EXCEPT ![CurName] = Remote(v)]
    /\ invoked' = invoked \cup {Cmd(CurName, CurConfig)}
    /\ results' = [results EXCEPT
                     ![CurName] = SuccessResult(CurName, CurConfig)]
    /\ i' = i + 1
    /\ before' = [before EXCEPT ![CurName] = Forgotten(@)]
    /\ UNCHANGED <<mode, pc, source_dict, clone_dir_exists, run>>
    /\ LaterUnchanged

\* Lines 95-118, 128-134: the old directory is removed and the clone command
\* exits non-zero (CalledProcessError)
FetchCloneFails ==
    /\ InFetchLoop
    /\ SourceCheck(CurConfig) = "ok"
    /\ Branch(CurConfig).type # "int"
    /\ \E left \in FailedClone(AfterRmtree(fs[CurName])) :
          /\ fs' = [fs EXCEPT ![CurName] = left]
          /\ produced' = [produced EXCEPT
                            ![CurName] = Written(AfterRmtree(fs[CurName]),
                                                 left)]
    /\ invoked' = invoked \cup {Cmd(CurName, CurConfig)}
    /\ results' = [results EXCEPT
                     ![CurName] = ErrorResult("Git clone failed",
                                              GitUrl(CurConfig))]
    /\ i' = i + 1
    /\ before' = [before EXCEPT ![CurName] = Forgotten(@)]
    /\ UNCHANGED <<mode, pc, source_dict, clone_dir_exists, run>>
    /\ LaterUnchanged

\* Lines 95-118, 135-141: the old directory is removed and the command is
\* handed to subprocess.run (line 113), which raises something else than
\* CalledProcessError
FetchCloneUnexpected ==
    /\ InFetchLoop
    /\ SourceCheck(CurConfig) = "ok"
    /\ \E left \in UnexpectedClone(AfterRmtree(fs[CurName]), CurConfig) :
          /\ fs' = [fs EXCEPT ![CurName] = left]
          /\ produced' = [produced EXCEPT
                            ![CurName] = Written(AfterRmtree(fs[CurName]),
                                                 left)]
    /\ invoked' = invoked \cup {Cmd(CurName, CurConfig)}
    /\ results' = [results EXCEPT
                     ![CurName] = ErrorResult("Unexpected error",
                                              GitUrl(CurConfig))]
    /\ i' = i + 1
    /\ before' = [before EXCEPT ![CurName] = Forgotten(@)]
    /\ UNCHANGED <<mode, pc, source_dict, clone_dir_exists, run>>
    /\ LaterUnchanged

\* Line 143: return results (generate_shop_list goes on to the scan)
FetchReturn ==
    /\ pc = "fetch"
    /\ i > Len(Items(source_dict))
    /\ pc' = IF mode = "gen" THEN "scan_start" ELSE "fetch_done"
    /\ UNCHANGED <<mode, source_dict, clone_dir_exists, fs, run, i, results,
                   invoked, produced, before>>
    /\ LaterUnchanged

\* Between two runs somebody changes a cloned directory locally
LocalEdit ==
    /\ mode = "fetch"
    /\ pc \in {"fetch_done", "raised", "idle"}
    /\ run < MaxRuns
    /\ \E n \in Names :
          /\ fs[n].exists
          /\ LocalFile \notin fs[n].extras
          /\ fs' = [fs EXCEPT ![n].extras = @ \cup {LocalFile}]
    /\ pc' = "idle"
    /\ UNCHANGED <<mode, source_dict, clone_dir_exists, run, i, results,
                   invoked, produced, before>>
    /\ LaterUnchanged

\* The fetch step is run again on the same catalog
FetchRerun ==
    /\ mode = "fetch"
    /\ pc \in {"fetch_done", "raised", "idle"}
    /\ run < MaxRuns
    /\ run' = run + 1
    /\ pc' = "start"
    /\ UNCHANGED <<mode, source_dict, clone_dir_exists, fs, i, results,
                   invoked, produced, before>>
    /\ LaterUnchanged

FetchNext ==
    \/ FetchBegin
    \/ FetchInvalidYaml
    \/ FetchNoSource
    \/ FetchRaise
    \/ FetchRmtreeFails
    \/ FetchCloneOk
    \/ FetchCloneFails
    \/ FetchCloneUnexpected
    \/ FetchReturn
    \/ LocalEdit
    \/ FetchRerun

---------------------------------------------------------------------------
(* scan_cloned_repositories *)

\* Line 182: sources.get(repo_name, {}) if sources else {}.  An empty or
\* missing catalog is falsy; a name without an entry gets the default {}; an
\* entry whose document is null is returned as it is (None).
SourceInfo(sd, name) ==
    IF Items(sd) = <<>> \/ sd[name].kind = "noentry" THEN MapDesc(EmptyMap)
    ELSE sd[name]

\* Line 191: dict.update: the manifest's value wherever the manifest has the
\* key, whole values replaced
Merge(defaults, manifest_data) ==
    [k \in Keys |-> IF HasKey(manifest_data, k) THEN manifest_data[k]
                    ELSE defaults[k]]

\* Line 200: f.readlines()[:100]
FirstLines(lines) ==
    SubSeq(lines, 1, IF Len(lines) <= ReadmeLimit THEN Len(lines)
                     ELSE ReadmeLimit)

\* Line 201: ''.join(lines).strip(), by lines: a line is "blank" (whitespace
\* only) or "text"; strip() takes the blank lines off both ends.
RECURSIVE LStrip(_)
LStrip(lines) ==
    IF lines # <<>> /\ Head(lines) = "blank" THEN LStrip(Tail(lines))
    ELSE lines
RECURSIVE RStrip(_)
RStrip(lines) ==
    IF lines # <<>> /\ lines[Len(lines)] = "blank"
    THEN RStrip(SubSeq(lines, 1, Len(lines) - 1))
    ELSE lines
Strip(lines) == RStrip(LStrip(lines))

\* Lines 200-201
Excerpt(lines) == Strip(FirstLines(lines))

\* Lines 205-206: source_info.get('rfnoc_path', 'rfnoc'), joined to the
\* repository path.  The result is the subdirectory, or "raise" when the
\* value is no string (os.path.join raises TypeError).
RfnocSubpath(source_info) ==
    IF HasKey(source_info.fields, "rfnoc_path")
    THEN source_info.fields["rfnoc_path"]
    ELSE Str(<<"rfnoc">>)

\* Line 206: os.path.join(repo_path, '') is the repository directory
\* itself, which exists; the repositories modelled keep no blocks, modules
\* or transport_adapters directory at their top level
RootAsMeta(d) == [NoMeta EXCEPT !.exists = d.exists]

\* Lines 206-207: os.path.join(repo_path, rfnoc_subpath) looked up in the
\* directory
SubDirIgnoringOverride(d, subpath) == d.rfnoc
SubDir(d, subpath) ==
    CASE subpath = <<"rfnoc">> -> d.rfnoc
      [] subpath = <<"alt">> -> d.alt
      [] subpath = <<>> -> RootAsMeta(d)
      [] OTHER -> NoMeta

\* Lines 213, 230, 247: glob.glob(<child>/*.yml): the suffix must match and
\* '*' matches no leading dot
GlobAll(files) == files
GlobYml(files) ==
    SelectSeq(files, LAMBDA f : ~f.hidden /\ f.ext = ".yml")

\* Lines 216-225: what open + yaml.safe_load do with a document.
\*   "item"  parsed (an empty document parses to None)
\*   "skip"  yaml.YAMLError, caught by the inner handler
\*   "raise" any other exception (the file cannot be read or decoded),
\*           which the inner handler does not catch
ParseOutcomeUncaught(content) ==
    CASE content = "malformed" -> "raise"
      [] content = "unreadable" -> "raise"
      [] OTHER -> "item"
ParseOutcome(content) ==
    CASE content = "malformed" -> "skip"
      [] content = "unreadable" -> "raise"
      [] OTHER -> "item"

\* Lines 219-223: the item appended for a parsed document
Item(child, f) ==
    [name |-> f.stem, file |-> <<child, f.stem, f.ext>>,
     config |-> IF f.content = "empty" THEN "None" ELSE f.content]

\* Lines 214-225: the loop over the matched files, which an uncaught
\* exception leaves with the items appended so far
RECURSIVE WalkFiles(_, _, _)
WalkFiles(child, files, acc) ==
    IF files = <<>> THEN [items |-> acc, raised |-> FALSE]
    ELSE LET f == Head(files)
             o == ParseOutcome(f.content)
         IN CASE o = "raise" -> [items |-> acc, raised |-> TRUE]
              [] o = "skip" -> WalkFiles(child, Tail(files), acc)
              [] OTHER -> WalkFiles(child, Tail(files),
                                    Append(acc, Item(child, f)))

\* Lines 211-225 (227-242, 244-259): one child directory
ScanChild(child, c) ==
    IF c.exists THEN WalkFiles(child, GlobYml(c.files), <<>>)
    ELSE [items |-> <<>>, raised |-> FALSE]

\* Lines 261-263: the handler of the outer try block
WithError(info) == [info EXCEPT !.error = "Error scanning repository"]

\* Lines 207-259: the scan of the metadata subdirectory
ScanMeta(info, m) ==
    IF ~m.exists THEN info
    ELSE
      LET i1 == [info EXCEPT !.has_rfnoc = TRUE]
          b == ScanChild("blocks", m.blocks)
          i2 == [i1 EXCEPT !.rfnoc_blocks = b.items]
          mo == ScanChild("modules", m.modules)
          i3 == [i2 EXCEPT !.rfnoc_modules = mo.items]
          t == ScanChild("transport_adapters", m.transport_adapters)
          i4 == [i3 EXCEPT !.rfnoc_transport_adapters = t.items]
      IN IF b.raised THEN WithError(i2)
         ELSE IF mo.raised THEN WithError(i3)
         ELSE IF t.raised THEN WithError(i4)
         ELSE i4

\* Lines 195-259: from the readme on
ScanFromReadme(info, d, source_info) ==
    LET i1 == IF d.readme.exists
              THEN [info EXCEPT !.readme =
                      [kind |-> "str", lines |-> Excerpt(d.readme.lines)]]
              ELSE info
        sub == RfnocSubpath(source_info)
    IN IF sub.type # "str" THEN WithError(i1)
       ELSE ScanMeta(i1, SubDir(d, sub.s))

\* Line 189: yaml.safe_load(f) or {}: an empty document (None) and a falsy
\* scalar (0, false, '', []) both load as the empty mapping
LoadedManifest(manifest) ==
    IF manifest.kind \in {"empty", "falsy"} THEN EmptyMap
    ELSE manifest.fields

\* Lines 169-265: one iteration of the loop over repo_dirs: the record of
\* repository `name`, whose directory is d
ScanRepo(name, d, sd) ==
    LET info == RepoInfo(name)
        source_info == SourceInfo(sd, name)
    IN \* line 183: None (or a scalar) has no copy()
       IF source_info.kind # "map" THEN WithError(info)
       \* line 189: yaml.safe_load raises; line 191: update() with a
       \* truthy scalar raises
       ELSE IF d.manifest.kind \in {"malformed", "scalar"}
       THEN WithError(info)
       ELSE ScanFromReadme(
              [info EXCEPT !.manifest =
                 [kind |-> "map",
                  fields |-> IF d.manifest.kind = "absent"
                             THEN source_info.fields
                             ELSE Merge(source_info.fields,
                                        LoadedManifest(d.manifest))]],
              d, source_info)

\* Lines 165-166: the directories under the working directory, in listing
\* order
RepoDirs == SelectSeq(NameOrder, LAMBDA n : fs[n].exists)

\* Lines 261-265: the exception was caught; the loop goes on
PcAfterRepoUncaught(info) == IF info.error # "" THEN "raised" ELSE "scan"
PcAfterRepo(info) == "scan"

FetchUnchanged == UNCHANGED <<run, results, invoked, produced, before>>

\* Lines 156-166: the call begins
ScanBegin ==
    /\ pc = "scan_start"
    /\ clone_dir_exists
    /\ scan_results' = NoRecords
    /\ i' = 1
    /\ pc' = "scan"
    /\ UNCHANGED <<mode, source_dict, clone_dir_exists, fs, out,
                   generated_files, ret, exit_code, failed_at>>
    /\ FetchUnchanged

\* Lines 159-160: no working directory: return {}
ScanNoCloneDir ==
    /\ pc = "scan_start"
    /\ ~clone_dir_exists
    /\ scan_results' = NoRecords
    /\ pc' = "scan_done"
    /\ UNCHANGED <<mode, source_dict, clone_dir_exists, fs, i, out,
                   generated_files, ret, exit_code, failed_at>>
    /\ FetchUnchanged

\* Lines 168-265: one repository
ScanRepoStep ==
    /\ pc = "scan"
    /\ i <= Len(RepoDirs)
    /\ LET name == RepoDirs[i]
           info == ScanRepo(name, fs[name], source_dict)
       IN /\ scan_results' = [scan_results EXCEPT ![name] = Record(info)]
          /\ pc' = PcAfterRepo(info)
    /\ i' = i + 1
    /\ UNCHANGED <<mode, source_dict, clone_dir_exists, fs, out,
                   generated_files, ret, exit_code, failed_at>>
    /\ FetchUnchanged

\* Line 267: return scan_results (generate_shop_list goes on to render)
ScanReturn ==
    /\ pc = "scan"
    /\ i > Len(RepoDirs)
    /\ pc' = IF mode = "gen" THEN "render" ELSE "scan_done"
    /\ i' = 1
    /\ UNCHANGED <<mode, source_dict, clone_dir_exists, fs, scan_results, out,
                   generated_files, ret, exit_code, failed_at>>
    /\ FetchUnchanged

ScanNext ==
    \/ ScanBegin
    \/ ScanNoCloneDir
    \/ ScanRepoStep
    \/ ScanReturn

---------------------------------------------------------------------------
(* generate_shop_list and main *)

\* Line 298: scan_results.items(): the records, in the order they were added
Records == SelectSeq(NameOrder, LAMBDA n : scan_results[n].present)

\* Lines 23-27: what a failed render_template_to_file leaves at out_path.
\* The template is loaded before the file is opened, and the file is opened
\* (created or truncated) before the template is rendered.
\*   "load"   mako.template.Template(filename=...) raises
\*   "render" template.render(...) raises
AfterFailedRender(doc, stage) == IF stage = "load" THEN doc ELSE "empty"

\* Lines 304-311, 320-324: a rendering failure is not caught in
\* generate_shop_list
PcAfterRenderFailureCaught == "render"
PcAfterRenderFailure == "render_failed"

ScanUnchanged == UNCHANGED <<mode, source_dict, clone_dir_exists, fs,
                             scan_results>>

\* Lines 298-314: one detail document is rendered and written
RenderDetailOk ==
    /\ pc = "render"
    /\ i <= Len(Records)
    /\ out' = [out EXCEPT !.docs[Records[i]] = "written"]
    /\ generated_files' = Append(generated_files, Records[i])
    /\ i' = i + 1
    /\ UNCHANGED <<pc, ret, exit_code, failed_at>>
    /\ ScanUnchanged
    /\ FetchUnchanged

\* Lines 298-311: rendering a detail document raises
RenderDetailFails ==
    /\ pc = "render"
    /\ i <= Len(Records)
    /\ \E stage \in {"load", "render"} :
          out' = [out EXCEPT
                    !.docs[Records[i]] = AfterFailedRender(@, stage)]
    /\ failed_at' = IF failed_at = 0 THEN i ELSE failed_at
    /\ pc' = PcAfterRenderFailure
    /\ UNCHANGED <<i, generated_files, ret, exit_code>>
    /\ ScanUnchanged
    /\ FetchUnchanged

\* Lines 316-327: the index is rendered and written; return scan_results
RenderIndexOk ==
    /\ pc = "render"
    /\ i > Len(Records)
    /\ out' = [out EXCEPT !.index = "written"]
    /\ ret' = "scan_results"
    /\ pc' = "done"
    /\ UNCHANGED <<i, generated_files, exit_code, failed_at>>
    /\ ScanUnchanged
    /\ FetchUnchanged

\* Lines 316-324: rendering the index raises
RenderIndexFails ==
    /\ pc = "render"
    /\ i > Len(Records)
    /\ \E stage \in {"load", "render"} :
          out' = [out EXCEPT !.index = AfterFailedRender(@, stage)]
    /\ failed_at' = IF failed_at = 0 THEN i ELSE failed_at
    /\ pc' = PcAfterRenderFailure
    /\ UNCHANGED <<i, generated_files, ret, exit_code>>
    /\ ScanUnchanged
    /\ FetchUnchanged

\* Lines 332-350: main returns 0 after generate_shop_list returned, and
\* catches whatever it raised and returns 1
MainReturn ==
    /\ mode = "gen"
    /\ pc \in {"done", "raised", "render_failed"}
    /\ exit_code' = IF pc = "done" THEN 0 ELSE 1
    /\ pc' = "exited"
    /\ UNCHANGED <<i, out, generated_files, ret, failed_at>>
    /\ ScanUnchanged
    /\ FetchUnchanged

Next ==
    \/ FetchBegin
    \/ FetchInvalidYaml
    \/ FetchNoSource
    \/ FetchRaise
    \/ FetchRmtreeFails
    \/ FetchCloneOk
    \/ FetchCloneFails
    \/ FetchCloneUnexpected
    \/ FetchReturn
    \/ ScanBegin
    \/ ScanRepoStep
    \/ ScanReturn
    \/ RenderDetailOk
    \/ RenderDetailFails
    \/ RenderIndexOk
    \/ RenderIndexFails
    \/ MainReturn

---------------------------------------------------------------------------
(* Inputs and specifications *)

\* The descriptors a catalog of the fetch model draws from
GitPlusUrl == Str(<<"git+", "https://h/r">>)
PlainUrl == Str(<<"https://h/r">>)
FetchDescs ==
    { NoEntry, NullDesc, IntDesc, StrDesc(<<"x">>), StrDesc(<<"source">>),
      MapDesc(EmptyMap),
      MapDesc(MapOf(Missing, Missing, Str(<<"D">>), Missing)),
      MapDesc(MapOf(GitPlusUrl, Missing, Missing, Missing)),
      MapDesc(MapOf(PlainUrl, Str(<<"main">>), Missing, Missing)),
      MapDesc(MapOf(PlainUrl, IntVal, Missing, Missing)),
      MapDesc(MapOf(IntVal, Missing, Missing, Missing)),
      MapDesc(MapOf(NoneVal, Missing, Missing, Missing)) }

InitCommon ==
    /\ run = 1
    /\ i = 1
    /\ results = [n \in Names |-> NoResult]
    /\ invoked = {}
    /\ produced = [n \in Names |-> Absent]
    /\ before = fs
    /\ scan_results = NoRecords
    /\ generated_files = <<>>
    /\ ret = "none"
    /\ exit_code = -1
    /\ failed_at = 0

InitFetch ==
    /\ mode = "fetch"
    /\ pc = "start"
    /\ source_dict \in [Names -> FetchDescs]
    /\ clone_dir_exists \in BOOLEAN
    /\ fs = [n \in Names |-> Absent]
    /\ out = NoOutput
    /\ InitCommon

SpecFetch == InitFetch /\ [][FetchNext]_vars


\* A readme of lead blank lines, body text lines and trail blank lines
ReadmeOf(lead, body, trail) ==
    Readme([k \in 1..(lead + body + trail) |->
              IF k <= lead \/ k > lead + body THEN "blank" ELSE "text"])
ReadmeBodies == {0, 1} \cup ((ReadmeLimit - 1)..(ReadmeLimit + MaxOver))
Readmes ==
    {NoReadme} \cup
    {ReadmeOf(l, b, t) : l \in 0..1, b \in ReadmeBodies, t \in 0..1}
ShortReadme == ReadmeOf(1, 1, 1)

Doc(stem, content) == File(FALSE, stem, ".yml", content)
BlockChildren ==
    { NoChild, Child(<<>>), Child(<<Doc("b1", "doc")>>),
      Child(<<Doc("b0", "malformed"), Doc("b1", "doc")>>),
      Child(<<Doc("b1", "doc"), Doc("b2", "unreadable"), Doc("b3", "doc")>>),
      Child(<<File(FALSE, "b1", ".txt", "doc"), File(TRUE, "h", ".yml", "doc"),
              Doc("b2", "empty")>>) }
ModuleChildren ==
    { NoChild, Child(<<Doc("m1", "doc")>>),
      Child(<<Doc("m0", "malformed"), Doc("m1", "doc")>>) }
AdapterChildren ==
    { NoChild, Child(<<Doc("t1", "doc"), Doc("t2", "malformed")>>) }
Metas ==
    {NoMeta} \cup
    {Meta(b, m, t) : b \in BlockChildren, m \in ModuleChildren,
                     t \in AdapterChildren}
FixtureMeta ==
    Meta(Child(<<File(FALSE, "b1", ".yml", "doc")>>),
         Child(<<File(FALSE, "m1", ".yml", "doc")>>), NoChild)
AltMeta == Meta(NoChild, NoChild, Child(<<Doc("t9", "doc")>>))

ManifestMap(title, rp) ==
    [kind |-> "map", fields |-> MapOf(Missing, Missing, title, rp)]
Manifests ==
    { NoManifest,
      [kind |-> "malformed", fields |-> EmptyMap],
      [kind |-> "scalar", fields |-> EmptyMap],
      [kind |-> "falsy", fields |-> EmptyMap],
      [kind |-> "empty", fields |-> EmptyMap],
      ManifestMap(Str(<<"M">>), Missing),
      ManifestMap(Missing, Str(<<"alt">>)) }

ScanDescs ==
    { NoEntry, NullDesc, MapDesc(EmptyMap),
      MapDesc(MapOf(PlainUrl, Missing, Str(<<"D">>), Missing)),
      MapDesc(MapOf(Missing, Missing, Missing, Str(<<"alt">>))),
      MapDesc(MapOf(PlainUrl, Missing, Str(<<"D">>), Str(<<"alt">>))),
      MapDesc(MapOf(Missing, Missing, Missing, Str(<<>>))),
      MapDesc(MapOf(Missing, Missing, Missing, NoneVal)) }

\* The (descriptor, directory) pairs a name of the scan model draws from
Scenario(desc, dir) == [desc |-> desc, dir |-> dir]
Scenarios ==
    {Scenario(NoEntry, Absent), Scenario(NullDesc, Absent)}
    \cup {Scenario(d, Dir(m, ShortReadme, FixtureMeta, AltMeta, {})) :
            d \in ScanDescs, m \in Manifests}
    \cup {Scenario(NoEntry, Dir(NoManifest, NoReadme, mt, NoMeta, {})) :
            mt \in Metas}
    \cup {Scenario(d, Dir(m, NoReadme, mm[1], mm[2], {})) :
            d \in ScanDescs,
            m \in {NoManifest, ManifestMap(Missing, Str(<<"alt">>))},
            mm \in {<<NoMeta, AltMeta>>, <<FixtureMeta, NoMeta>>}}
    \cup {Scenario(d, Dir(NoManifest, r, NoMeta, NoMeta, {})) :
            d \in {NoEntry}, r \in Readmes}
    \cup {Scenario(NullDesc, Dir(NoManifest, ShortReadme, NoMeta, NoMeta, {}))}

InitScan ==
    /\ mode = "scan"
    /\ pc = "scan_start"
    /\ \E sc \in [Names -> Scenarios] :
          /\ source_dict = [n \in Names |-> sc[n].desc]
          /\ fs = [n \in Names |-> sc[n].dir]
    /\ clone_dir_exists \in BOOLEAN
    /\ ~clone_dir_exists => \A n \in Names : ~fs[n].exists
    /\ out = NoOutput
    /\ InitCommon

SpecScan == InitScan /\ [][ScanNext]_vars

\* A directory left in the working directory by hand or by an earlier run
StaleDir ==
    Dir([kind |-> "malformed", fields |-> EmptyMap], NoReadme, NoMeta, NoMeta,
        {LocalFile})
GenDescs ==
    { NoEntry, NullDesc, IntDesc, MapDesc(EmptyMap),
      MapDesc(MapOf(GitPlusUrl, Missing, Missing, Missing)),
      MapDesc(MapOf(PlainUrl, Missing, Missing, Str(<<"alt">>))) }

Init ==
    /\ mode = "gen"
    /\ pc = "start"
    /\ source_dict \in [Names -> GenDescs]
    /\ clone_dir_exists \in BOOLEAN
    /\ fs \in [Names -> {Absent, StaleDir}]
    /\ ~clone_dir_exists => \A n \in Names : ~fs[n].exists
    /\ \E st \in {"absent", "stale"} :
          out = [docs |-> [n \in Names |-> st], index |-> st]
    /\ InitCommon

Spec == Init /\ [][Next]_vars

---------------------------------------------------------------------------
(* Properties *)

\* The entry has a `source` the fetcher can use
HasSource(config) ==
    /\ config.kind = "map"
    /\ config.fields["source"].type = "str"

\* The entry's document is null, or its descriptor has no `source` field
LacksSource(config) ==
    \/ config.kind \in {"null", "int", "str"}
    \/ config.kind = "map" /\ ~HasKey(config.fields, "source")

FetchEnded == pc \in {"fetch_done", "raised"}

(* C1: in clone_repositories a failure while processing one entry never    *)
(* aborts the others: the call always returns, and the returned mapping    *)
(* holds exactly one result, success or error, for every catalog entry.    *)
C1_EveryEntryGetsAResult ==
    /\ pc # "raised"
    /\ pc = "fetch_done" =>
         \A n \in Names :
            (source_dict[n].kind # "noentry")
               <=> (results[n].status \in {"success", "error"})

(* C2: every catalog entry with a null descriptor or without a `source`    *)
(* field gets a result with status error, and no clone command is invoked  *)
(* for it.                                                                 *)
C2_NoSourceIsAnErrorWithoutClone ==
    FetchEnded =>
      \A n \in Names :
         LacksSource(source_dict[n]) =>
            /\ results[n].status = "error"
            /\ \A c \in invoked : c.dir # n

(* C6, as stated: after the second run the directory of an entry with a    *)
(* `source` holds only what the second clone produced.                     *)
C6_SecondRunLeavesOnlyTheSecondClone ==
    (run >= 2 /\ pc = "fetch_done") =>
      \A n \in Names :
         HasSource(source_dict[n]) => fs[n] = produced[n]

(* C6, amended: after a second run the directory of an entry with a usable *)
(* `source` holds only what that run's clone command wrote whenever the    *)
(* command was invoked: the whole clone when the result is success,        *)
(* nothing or a part of the new clone when the result is an error; nothing *)
(* of the earlier directory or of a local-only change is left.  It keeps   *)
(* earlier contents, in whole or in part and with nothing new, only when   *)
(* removing it failed (an 'Unexpected error', no command invoked) or when  *)
(* the run raised before it reached the entry.                             *)
C6_SecondRunCleanOrUntouched ==
    (run >= 2 /\ FetchEnded) =>
      \A n \in Names :
         HasSource(source_dict[n]) =>
            LET r == results[n]
                cloned == \E c \in invoked : c.dir = n
            IN \/ /\ r.status = "success"
                  /\ cloned
                  /\ \E v \in 1..MaxRev : fs[n] = Remote(v)
                  /\ fs[n] = produced[n]
               \/ /\ r.status = "error"
                  /\ cloned
                  /\ fs[n] = produced[n]
                  /\ LocalFile \notin fs[n].extras
                  /\ fs[n].exists => fs[n] \in RemoteParts
               \/ /\ r.status = "error"
                  /\ r.message = "Unexpected error"
                  /\ ~cloned
                  /\ before[n].exists
                  /\ fs[n] \in Parts(before[n])
                  /\ ~produced[n].exists
               \/ /\ r.status = "none"
                  /\ pc = "raised"
                  /\ fs[n] = before[n]

\* A second run replaced a directory that held the first run's revision and
\* a local-only change by the clone of another revision, and failed part way
\* to remove the directory of the other entry, which the first run's clone
\* had left in part.
C6_Witness ==
    /\ run = 2
    /\ pc = "fetch_done"
    /\ \E n \in Names :
          /\ results[n].status = "success"
          /\ LocalFile \in before[n].extras
          /\ [name |-> "tree", rev |-> 1] \in before[n].extras
          /\ produced[n] = Remote(2)
          /\ fs[n] = Remote(2)
          /\ \E m \in Names \ {n} :
                /\ results[m].message = "Unexpected error"
                /\ \A c \in invoked : c.dir # m
                /\ before[m].exists
                /\ \A v \in 1..MaxRev : before[m] # Remote(v)
                /\ before[m].rfnoc.exists
                /\ fs[m].exists
                /\ ~fs[m].rfnoc.exists

\* The metadata subdirectory of a repository: the one the descriptor's
\* rfnoc_path names if it has one (the empty path names the repository
\* directory itself), else rfnoc
NamedMeta(d, v) ==
    IF v.type # "str" THEN NoMeta
    ELSE IF v.s = <<"rfnoc">> THEN d.rfnoc
    ELSE IF v.s = <<"alt">> THEN d.alt
    ELSE IF v.s = <<>> THEN [NoMeta EXCEPT !.exists = d.exists]
    ELSE NoMeta
MetaDirOf(n) ==
    IF source_dict[n].kind = "map"
       /\ HasKey(source_dict[n].fields, "rfnoc_path")
    THEN NamedMeta(fs[n], source_dict[n].fields["rfnoc_path"])
    ELSE fs[n].rfnoc

Scanned == {n \in Names : scan_results[n].present}
InfoOf(n) == scan_results[n].info
ChildNames == {"blocks", "modules", "transport_adapters"}
ChildOf(m, c) ==
    CASE c = "blocks" -> m.blocks
      [] c = "modules" -> m.modules
      [] c = "transport_adapters" -> m.transport_adapters
ListOf(info, c) ==
    CASE c = "blocks" -> info.rfnoc_blocks
      [] c = "modules" -> info.rfnoc_modules
      [] c = "transport_adapters" -> info.rfnoc_transport_adapters
ItemNames(items) == {items[k].name : k \in 1..Len(items)}
FilesOf(c) == {c.files[k] : k \in 1..Len(c.files)}

(* C3: for every scanned repository with a matching descriptor and a root  *)
(* manifest, the merged metadata maps every key of the manifest to the     *)
(* manifest's value, every descriptor key absent from the manifest to the  *)
(* descriptor's value, and holds no other key.                             *)
C3_ManifestOverridesDescriptor ==
    \A n \in Scanned :
       (/\ source_dict[n].kind # "noentry"
        /\ fs[n].manifest.kind \in {"map", "empty", "falsy"}) =>
          LET merged == InfoOf(n).manifest
              m == fs[n].manifest.fields
              d == source_dict[n].fields
          IN /\ merged.kind = "map"
             /\ \A k \in Keys :
                   merged.fields[k] = IF HasKey(m, k) THEN m[k] ELSE d[k]

\* An exception is raised while repository n is scanned: its descriptor is
\* no mapping, its manifest does not load or is a truthy scalar, its
\* rfnoc_path is no string, or a document the scan opens cannot be read.
ScanRaises(n) ==
    \/ Items(source_dict) # <<>> /\ source_dict[n].kind \in {"null", "int", "str"}
    \/ fs[n].manifest.kind \in {"malformed", "scalar"}
    \/ /\ source_dict[n].kind = "map"
       /\ HasKey(source_dict[n].fields, "rfnoc_path")
       /\ source_dict[n].fields["rfnoc_path"].type # "str"
    \/ /\ MetaDirOf(n).exists
       /\ \E c \in ChildNames :
             /\ ChildOf(MetaDirOf(n), c).exists
             /\ \E f \in FilesOf(ChildOf(MetaDirOf(n), c)) :
                   ~f.hidden /\ f.ext = ".yml" /\ f.content = "unreadable"

(* C4: scan_cloned_repositories returns exactly one record per directory   *)
(* under the working directory; an exception raised while one repository   *)
(* is scanned becomes the `error` field of that repository's record, and   *)
(* every other directory still gets its own record, which depends on its   *)
(* own directory alone.                                                    *)
C4_OneRecordPerDirectory ==
    /\ mode = "scan" => pc # "raised"
    /\ pc = "scan_done" =>
         \A n \in Names :
            /\ scan_results[n].present <=> (clone_dir_exists /\ fs[n].exists)
            /\ scan_results[n].present =>
                 /\ (InfoOf(n).error # "") <=> ScanRaises(n)
                 /\ InfoOf(n) = ScanRepo(n, fs[n], source_dict)

\* The scan of the first repository raised, and the second one has its
\* record, with its block and no error.
C4_Witness ==
    /\ pc = "scan_done"
    /\ Scanned = Names
    /\ InfoOf(NameOrder[1]).error # ""
    /\ InfoOf(NameOrder[2]).error = ""
    /\ InfoOf(NameOrder[2]).has_rfnoc
    /\ Len(InfoOf(NameOrder[2]).rfnoc_blocks) = 1

\* The directory without its malformed item documents
IsMalformedDoc(f) == f.ext = ".yml" /\ f.content = "malformed"
WithoutMalformedIn(c) ==
    [c EXCEPT !.files = SelectSeq(@, LAMBDA f : ~IsMalformedDoc(f))]
WithoutMalformedMeta(m) ==
    [m EXCEPT !.blocks = WithoutMalformedIn(@),
              !.modules = WithoutMalformedIn(@),
              !.transport_adapters = WithoutMalformedIn(@)]
WithoutMalformed(d) ==
    [d EXCEPT !.rfnoc = WithoutMalformedMeta(@),
              !.alt = WithoutMalformedMeta(@)]

(* C5: a malformed item document under the metadata subdirectory is        *)
(* skipped: it yields no item, and the record, with its sibling items in   *)
(* all three child directories and with or without an error field, is the  *)
(* record the repository has without the malformed documents.              *)
C5_MalformedItemIsSkipped ==
    \A n \in Scanned :
       /\ InfoOf(n) = ScanRepo(n, WithoutMalformed(fs[n]), source_dict)
       /\ \A c \in ChildNames :
             \A f \in FilesOf(ChildOf(MetaDirOf(n), c)) :
                IsMalformedDoc(f) =>
                   f.stem \notin ItemNames(ListOf(InfoOf(n), c))

\* A repository with a malformed document in each child directory: the
\* well-formed siblings are all listed and the record has no error.
C5_Witness ==
    \E n \in Scanned :
       /\ \A c \in ChildNames :
             \E f \in FilesOf(ChildOf(fs[n].rfnoc, c)) : IsMalformedDoc(f)
       /\ InfoOf(n).error = ""
       /\ ItemNames(InfoOf(n).rfnoc_blocks) = {"b1"}
       /\ ItemNames(InfoOf(n).rfnoc_modules) = {"m1"}
       /\ ItemNames(InfoOf(n).rfnoc_transport_adapters) = {"t1"}

\* The parseable documents of a child directory
Parseable(f) == f.content \notin {"malformed", "unreadable"}
ParseableDocs(c) == {f \in FilesOf(c) : f.ext = ".yml" /\ Parseable(f)}
VisibleParseableDocs(c) == {f \in ParseableDocs(c) : ~f.hidden}
OneItemPer(items, docs) ==
    /\ Len(items) = Cardinality(docs)
    /\ ItemNames(items) = {f.stem : f \in docs}

(* C7, as stated: for a repository whose metadata subdirectory exists,     *)
(* each of the three item lists holds exactly one item per parseable .yml  *)
(* file of the corresponding child directory, named by the file name       *)
(* without suffix, and no other item.                                      *)
C7_OneItemPerDocument ==
    \A n \in Scanned :
       MetaDirOf(n).exists =>
          \A c \in ChildNames :
             OneItemPer(ListOf(InfoOf(n), c),
                        ParseableDocs(ChildOf(MetaDirOf(n), c)))

(* C7, amended: for a repository whose metadata subdirectory exists and    *)
(* whose scan raised no exception (the record has no error field), each of *)
(* the three item lists holds exactly one item per parseable .yml file     *)
(* whose name does not start with a dot, named by the file name without    *)
(* suffix, and no other item.                                              *)
C7_OneItemPerVisibleDocument ==
    \A n \in Scanned :
       (MetaDirOf(n).exists /\ InfoOf(n).error = "") =>
          \A c \in ChildNames :
             OneItemPer(ListOf(InfoOf(n), c),
                        VisibleParseableDocs(ChildOf(MetaDirOf(n), c)))

\* The fixture with one block document, one module document and no
\* transport adapters: one block, one module, zero adapters.
C7_Witness ==
    \E n \in Scanned :
       /\ fs[n].rfnoc = FixtureMeta
       /\ MetaDirOf(n) = FixtureMeta
       /\ InfoOf(n).error = ""
       /\ Len(InfoOf(n).rfnoc_blocks) = 1
       /\ Len(InfoOf(n).rfnoc_modules) = 1
       /\ Len(InfoOf(n).rfnoc_transport_adapters) = 0

(* C9: every repository directory without a metadata subdirectory still    *)
(* produces a record, in which the three item lists are empty and          *)
(* has_rfnoc is false.                                                     *)
C9_NoMetadataSubdirectory ==
    \A n \in Names :
       (fs[n].exists /\ ~MetaDirOf(n).exists) =>
          /\ pc = "scan_done" => n \in Scanned
          /\ n \in Scanned =>
               /\ InfoOf(n).rfnoc_blocks = <<>>
               /\ InfoOf(n).rfnoc_modules = <<>>
               /\ InfoOf(n).rfnoc_transport_adapters = <<>>
               /\ ~InfoOf(n).has_rfnoc

\* The descriptor names a subdirectory that does not exist, next to an
\* rfnoc directory that does.
C9_Witness ==
    \E n \in Scanned :
       /\ source_dict[n].kind = "map"
       /\ source_dict[n].fields["rfnoc_path"] = Str(<<"alt">>)
       /\ ~fs[n].alt.exists
       /\ fs[n].rfnoc.exists
       /\ ~InfoOf(n).has_rfnoc
       /\ InfoOf(n).error = ""

(* C10: the readme excerpt of a record never exceeds 100 lines, and for a  *)
(* readme of at most 100 lines it covers all of its lines.                 *)
C10_ExcerptCoversShortReadme ==
    \A n \in Scanned :
       fs[n].readme.exists =>
          /\ Len(InfoOf(n).readme.lines) <= ReadmeLimit
          /\ Len(fs[n].readme.lines) <= ReadmeLimit =>
               /\ InfoOf(n).readme.kind = "str"
               /\ InfoOf(n).readme.lines = fs[n].readme.lines

(* C8: a rendering failure in generate_shop_list is not caught there: it   *)
(* reaches the caller and ends the run, no detail document of a later      *)
(* repository and no index is written after it, and generate_shop_list     *)
(* returns nothing.                                                        *)
C8_RenderFailureAborts ==
    failed_at # 0 =>
       /\ pc \in {"render_failed", "exited"}
       /\ ret = "none"
       /\ pc = "exited" => exit_code = 1
       /\ out.index # "written"
       /\ failed_at <= Len(Records) => out.index # "empty"
       /\ \A k \in 1..Len(Records) :
             k > failed_at => out.docs[Records[k]] \notin {"written", "empty"}
       /\ Len(generated_files) = failed_at - 1

\* Rendering the first of two records failed: the second detail document
\* and the index are still the ones an earlier build left.
C8_Witness ==
    /\ failed_at = 1
    /\ Len(Records) = 2
    /\ pc = "exited"
    /\ out.docs[Records[2]] = "stale"
    /\ out.index = "stale"

===========================================================================
